---------------------------- MODULE Spec2Model ----------------------------
(***************************************************************************)
(* Model of vigra/multi_gridgraph_neighborhoods.hxx: the border-type       *)
(* classifier, the direct and indirect neighbor-offset enumerators, the    *)
(* table factory makeArrayNeighborhood and makeArraySubNeighborhood.       *)
(*                                                                         *)
(* A Shape (TinyVector<MultiArrayIndex, N>) is a sequence of length N:     *)
(* the C++ component point[d], d in 0..N-1, is point[d+1] here.  An        *)
(* ArrayVector is a sequence: the C++ element a[k], k >= 0, is a[k+1].     *)
(* Values stored in the tables (border codes, neighbor indices l) keep     *)
(* their 0-based C++ values.                                               *)
(***************************************************************************)
EXTENDS Integers, Sequences, FiniteSets, TLC

\* ------------------------------------------------------------------ bounds
MaxN == 3           \* dimensionalities 1..MaxN (the template parameter N)
MaxCalls == 3       \* table-building calls made on one set of containers
MaxBase == 3        \* stride vectors (1, b, b^2, ..) and reversed, b <= MaxBase
MaxExtent == 3      \* region extents 1..MaxExtent per dimension

DirectNeighborhood == 0
IndirectNeighborhood == 1
NeighborhoodType == {DirectNeighborhood, IndirectNeighborhood}

\* ------------------------------------------------- external Shape primitives
RECURSIVE ZeroShape(_)
\* Shape point;  (TinyVector's default constructor fills with zeros)
ZeroShape(n) == IF n = 0 THEN <<>> ELSE Append(ZeroShape(n - 1), 0)

RECURSIVE DotFrom(_, _, _)
DotFrom(a, b, d) ==
    IF d > Len(a) THEN 0 ELSE a[d] * b[d] + DotFrom(a, b, d + 1)

\* dot(a, b): sum of the componentwise products
dot(a, b) == DotFrom(a, b, 1)

RECURSIVE cumprod(_)
\* cumprod(s)[d] = s[0] * ... * s[d]
cumprod(s) ==
    IF Len(s) = 0 THEN <<>>
    ELSE LET front == cumprod(SubSeq(s, 1, Len(s) - 1))
         IN  Append(front, (IF Len(front) = 0 THEN 1 ELSE front[Len(front)]) * s[Len(s)])

\* ------------------------------------------------------- bit operations
\* (x & mask) != 0, mask a power of two
BitAnd(x, mask) == (x \div mask) % 2 = 1

\* x |= mask, mask a power of two
BitOr(x, mask) == IF BitAnd(x, mask) THEN x ELSE x + mask

\* ------------------------------------------------------- BorderTypeImpl
\* as BorderTypeImpl<N, 0>::exec, the high border tested against shape[0]
BorderTypeImpl0_exec_HighOffByOne(pt, shp) ==
    LET res0 == 0
        res1 == IF pt[1] = 0 THEN BitOr(res0, 1) ELSE res0
        res2 == IF pt[1] = shp[1] THEN BitOr(res1, 2) ELSE res1
    IN  res2

\* BorderTypeImpl<N, 0>::exec
BorderTypeImpl0_exec(pt, shp) ==
    LET res0 == 0
        res1 == IF pt[1] = 0 THEN BitOr(res0, 1) ELSE res0
        res2 == IF pt[1] = shp[1] - 1 THEN BitOr(res1, 2) ELSE res1
    IN  res2

RECURSIVE BorderTypeImpl_exec(_, _, _)
\* BorderTypeImpl<N, DIMENSION>::exec
BorderTypeImpl_exec(DIMENSION, pt, shp) ==
    IF DIMENSION = 0 THEN BorderTypeImpl0_exec(pt, shp)
    ELSE LET res0 == BorderTypeImpl_exec(DIMENSION - 1, pt, shp)
             res1 == IF pt[DIMENSION + 1] = 0
                     THEN BitOr(res0, 2 ^ (2 * DIMENSION)) ELSE res0
             res2 == IF pt[DIMENSION + 1] = shp[DIMENSION + 1] - 1
                     THEN BitOr(res1, 2 * 2 ^ (2 * DIMENSION)) ELSE res1
         IN  res2

\* ------------------------------------------- MakeDirectArrayNeighborhood
\* MakeDirectArrayNeighborhood<0>::offsets
MakeDirectArrayNeighborhood0_offsets(a, n) ==
    LET point == ZeroShape(n)
        a1 == Append(a, [point EXCEPT ![1] = -1])
    IN  Append(a1, [point EXCEPT ![1] = 1])

RECURSIVE MakeDirectArrayNeighborhood_offsets_PositiveFirst(_, _, _)
\* as MakeDirectArrayNeighborhood<Level>::offsets, the +1 offset pushed first
MakeDirectArrayNeighborhood_offsets_PositiveFirst(Level, a, n) ==
    IF Level = 0 THEN MakeDirectArrayNeighborhood0_offsets(a, n)
    ELSE LET point == ZeroShape(n)
             a1 == Append(a, [point EXCEPT ![Level + 1] = 1])
             a2 == MakeDirectArrayNeighborhood_offsets_PositiveFirst(Level - 1, a1, n)
         IN  Append(a2, [point EXCEPT ![Level + 1] = -1])

RECURSIVE MakeDirectArrayNeighborhood_offsets(_, _, _)
\* MakeDirectArrayNeighborhood<Level>::offsets
MakeDirectArrayNeighborhood_offsets(Level, a, n) ==
    IF Level = 0 THEN MakeDirectArrayNeighborhood0_offsets(a, n)
    ELSE LET point == ZeroShape(n)
             a1 == Append(a, [point EXCEPT ![Level + 1] = -1])
             a2 == MakeDirectArrayNeighborhood_offsets(Level - 1, a1, n)
         IN  Append(a2, [point EXCEPT ![Level + 1] = 1])

\* MakeDirectArrayNeighborhood<0>::exists
MakeDirectArrayNeighborhood0_exists(a, borderType) ==
    Append(Append(a, ~BitAnd(borderType, 1)), ~BitAnd(borderType, 2))

RECURSIVE MakeDirectArrayNeighborhood_exists(_, _, _)
\* MakeDirectArrayNeighborhood<Level>::exists
MakeDirectArrayNeighborhood_exists(Level, a, borderType) ==
    IF Level = 0 THEN MakeDirectArrayNeighborhood0_exists(a, borderType)
    ELSE LET a1 == Append(a, ~BitAnd(borderType, 2 ^ (2 * Level)))
             a2 == MakeDirectArrayNeighborhood_exists(Level - 1, a1, borderType)
         IN  Append(a2, ~BitAnd(borderType, 2 * 2 ^ (2 * Level)))

\* ----------------------------------------- MakeIndirectArrayNeighborhood
\* as MakeIndirectArrayNeighborhood<0>::offsets, the center pushed as well
MakeIndirectArrayNeighborhood0_offsets_KeepsCenter(a, point, isCenter) ==
    LET a1 == Append(a, [point EXCEPT ![1] = -1])
        a2 == Append(a1, [point EXCEPT ![1] = 0])
    IN  Append(a2, [point EXCEPT ![1] = 1])

\* MakeIndirectArrayNeighborhood<0>::offsets
MakeIndirectArrayNeighborhood0_offsets(a, point, isCenter) ==
    LET a1 == Append(a, [point EXCEPT ![1] = -1])
        a2 == IF ~isCenter THEN Append(a1, [point EXCEPT ![1] = 0]) ELSE a1
    IN  Append(a2, [point EXCEPT ![1] = 1])

RECURSIVE MakeIndirectArrayNeighborhood_offsets_CenterFlag(_, _, _, _)
\* as MakeIndirectArrayNeighborhood<Level>::offsets, isCenter passed on to the +1 branch
MakeIndirectArrayNeighborhood_offsets_CenterFlag(Level, a, point, isCenter) ==
    IF Level = 0 THEN MakeIndirectArrayNeighborhood0_offsets(a, point, isCenter)
    ELSE LET a1 == MakeIndirectArrayNeighborhood_offsets_CenterFlag(
                       Level - 1, a, [point EXCEPT ![Level + 1] = -1], FALSE)
             a2 == MakeIndirectArrayNeighborhood_offsets_CenterFlag(
                       Level - 1, a1, [point EXCEPT ![Level + 1] = 0], isCenter)
         IN  MakeIndirectArrayNeighborhood_offsets_CenterFlag(
                       Level - 1, a2, [point EXCEPT ![Level + 1] = 1], isCenter)

RECURSIVE MakeIndirectArrayNeighborhood_offsets(_, _, _, _)
\* MakeIndirectArrayNeighborhood<Level>::offsets
MakeIndirectArrayNeighborhood_offsets(Level, a, point, isCenter) ==
    IF Level = 0 THEN MakeIndirectArrayNeighborhood0_offsets(a, point, isCenter)
    ELSE LET a1 == MakeIndirectArrayNeighborhood_offsets(
                       Level - 1, a, [point EXCEPT ![Level + 1] = -1], FALSE)
             a2 == MakeIndirectArrayNeighborhood_offsets(
                       Level - 1, a1, [point EXCEPT ![Level + 1] = 0], isCenter)
         IN  MakeIndirectArrayNeighborhood_offsets(
                       Level - 1, a2, [point EXCEPT ![Level + 1] = 1], FALSE)

\* MakeIndirectArrayNeighborhood<0>::markOutside
MakeIndirectArrayNeighborhood0_markOutside(a) ==
    Append(Append(Append(a, FALSE), FALSE), FALSE)

RECURSIVE MakeIndirectArrayNeighborhood_markOutside_Twice(_, _)
\* as MakeIndirectArrayNeighborhood<Level>::markOutside, with two calls instead of three
MakeIndirectArrayNeighborhood_markOutside_Twice(Level, a) ==
    IF Level = 0 THEN MakeIndirectArrayNeighborhood0_markOutside(a)
    ELSE LET a1 == MakeIndirectArrayNeighborhood_markOutside_Twice(Level - 1, a)
         IN  MakeIndirectArrayNeighborhood_markOutside_Twice(Level - 1, a1)

RECURSIVE MakeIndirectArrayNeighborhood_markOutside(_, _)
\* MakeIndirectArrayNeighborhood<Level>::markOutside
MakeIndirectArrayNeighborhood_markOutside(Level, a) ==
    IF Level = 0 THEN MakeIndirectArrayNeighborhood0_markOutside(a)
    ELSE LET a1 == MakeIndirectArrayNeighborhood_markOutside(Level - 1, a)
             a2 == MakeIndirectArrayNeighborhood_markOutside(Level - 1, a1)
         IN  MakeIndirectArrayNeighborhood_markOutside(Level - 1, a2)

\* MakeIndirectArrayNeighborhood<0>::exists
MakeIndirectArrayNeighborhood0_exists(a, borderType, isCenter) ==
    LET a1 == Append(a, ~BitAnd(borderType, 1))
        a2 == IF ~isCenter THEN Append(a1, TRUE) ELSE a1
    IN  Append(a2, ~BitAnd(borderType, 2))

RECURSIVE MakeIndirectArrayNeighborhood_exists(_, _, _, _)
\* MakeIndirectArrayNeighborhood<Level>::exists
MakeIndirectArrayNeighborhood_exists(Level, a, borderType, isCenter) ==
    IF Level = 0 THEN MakeIndirectArrayNeighborhood0_exists(a, borderType, isCenter)
    ELSE LET a1 == IF ~BitAnd(borderType, 2 ^ (2 * Level))
                   THEN MakeIndirectArrayNeighborhood_exists(Level - 1, a, borderType, FALSE)
                   ELSE MakeIndirectArrayNeighborhood_markOutside(Level - 1, a)
             a2 == MakeIndirectArrayNeighborhood_exists(Level - 1, a1, borderType, isCenter)
         IN  IF ~BitAnd(borderType, 2 * 2 ^ (2 * Level))
             THEN MakeIndirectArrayNeighborhood_exists(Level - 1, a2, borderType, FALSE)
             ELSE MakeIndirectArrayNeighborhood_markOutside(Level - 1, a2)

\* ------------------------------------------------------------------ state
VARIABLES
    N,                          \* Shape::static_size of the containers' Shape
    neighborOffsets,            \* ArrayVector<ArrayVector<Shape> >
    neighborExists,             \* ArrayVector<ArrayVector<bool> >
    causalNeighborExists,       \* ArrayVector<ArrayVector<bool> >
    anticausalNeighborExists,   \* ArrayVector<ArrayVector<bool> >
    neighborIndexLookup,        \* ArrayVector<ArrayVector<int> >
    neighborIndices,            \* ArrayVector<ArrayVector<MultiArrayIndex> >
    neighborhoodType,           \* argument of the last makeArrayNeighborhood call
    strides,                    \* argument of the last makeArraySubNeighborhood call
    subNeighborhoodType,        \* neighborhood of the tables that call was given
    buildCalls,                 \* makeArrayNeighborhood calls made so far
    subCalls,                   \* makeArraySubNeighborhood calls made so far
    point, shape,               \* arguments of BorderTypeImpl::exec
    borderType,                 \* its result (also the code given to exists)
    classified,                 \* whether exec has been called
    a,                          \* the array an enumerator appends to
    pc                          \* which enumerator function ran on a

tables == <<neighborOffsets, neighborExists, causalNeighborExists,
            anticausalNeighborExists, neighborIndexLookup>>
borderVars == <<point, shape, borderType, classified>>
subVars == <<neighborIndices, strides, subNeighborhoodType, subCalls>>
enumVars == <<a, pc>>
vars == <<N, tables, neighborhoodType, buildCalls, subVars, borderVars, enumVars>>

\* ArrayVector::resize(n): keeps the first n elements, default-constructs the rest
Resize(arr, n, dflt) ==
    IF Len(arr) >= n THEN SubSeq(arr, 1, n)
    ELSE arr \o [i \in 1..(n - Len(arr)) |-> dflt]

\* unsigned int size = 1 << 2*N
TableSize(n) == 2 ^ (2 * n)

\* Shape strides = cumprod(Shape(MultiArrayIndex(3))) / 3
NaturalStrides(n) ==
    LET c == cumprod([e \in 1..n |-> 3])
    IN  <<>> \o [d \in 1..n |-> c[d] \div 3]

\* neighborOffsets[0] after clear() and the chosen enumerator's offsets()
CanonicalOffsets(nt, n) ==
    IF nt = DirectNeighborhood
    THEN MakeDirectArrayNeighborhood_offsets(n - 1, <<>>, n)
    ELSE MakeIndirectArrayNeighborhood_offsets(n - 1, <<>>, ZeroShape(n), TRUE)

\* neighborExists[k] after clear() and the chosen enumerator's exists(.., k)
ExistsFor(nt, n, k) ==
    IF nt = DirectNeighborhood
    THEN MakeDirectArrayNeighborhood_exists(n - 1, <<>>, k)
    ELSE MakeIndirectArrayNeighborhood_exists(n - 1, <<>>, k, TRUE)

\* as the test if(stride < 0), with the sign reversed
IsCausal_Positive(stride) == stride > 0

\* if(stride < 0): the neighbor is a scan-order predecessor
IsCausal(stride) == stride < 0

\* causalNeighborExists[k] after resize(neighborCount) and the loop over l,
\* which assigns every element; strideOf[l+1] is dot(neighborOffsets[0][l], strides)
CausalRow(ex, strideOf) ==
    <<>> \o [l \in 1..Len(strideOf) |-> IF IsCausal(strideOf[l]) THEN ex[l] ELSE FALSE]

\* anticausalNeighborExists[k] after resize(neighborCount) and the loop over l
AnticausalRow(ex, strideOf) ==
    <<>> \o [l \in 1..Len(strideOf) |-> IF IsCausal(strideOf[l]) THEN FALSE ELSE ex[l]]

\* the values of l, in loop order, at which a loop `for l in 0..neighborCount-1:
\* if(neighborExists[k][l]) push_back(..)` pushes
PushedWhere(ex, neighborCount) ==
    LET Fires(l) == ex[l + 1]
    IN  SelectSeq([l \in 1..neighborCount |-> l - 1], Fires)

\* as the lookup loop, pushing l + 1 instead of l
LookupLoop_OneBased(neighborCount, ex, row) ==
    LET pushed == PushedWhere(ex, neighborCount)
    IN  row \o [i \in 1..Len(pushed) |-> pushed[i] + 1]

\* neighborIndexLookup[k] = row: the loop over l pushes l where neighborExists[k][l]
LookupLoop(neighborCount, ex, row) ==
    row \o PushedWhere(ex, neighborCount)

\* neighborOffsets[k] = row: for k > 0 the loop over l pushes neighborOffsets[0][l]
\* where neighborExists[k][l]
OffsetsLoop(k, offs0, ex, row) ==
    IF k > 0
    THEN LET pushed == PushedWhere(ex, Len(offs0))
         IN  row \o [i \in 1..Len(pushed) |-> offs0[pushed[i] + 1]]
    ELSE row

\* the five containers after makeArrayNeighborhood(.., nt) ran on the containers t
BuildTables(nt, n, t) ==
    LET size == TableSize(n)
        strd == NaturalStrides(n)
        offs0 == CanonicalOffsets(nt, n)
        neighborCount == Len(offs0)
        strideOf == <<>> \o [l \in 1..neighborCount |-> dot(offs0[l], strd)]
        oldLookup == Resize(t.lookup, size, <<>>)
        ex == <<>> \o [k \in 1..size |-> ExistsFor(nt, n, k - 1)]
    IN  [offsets |-> [k \in 1..size |->
                         OffsetsLoop(k - 1, offs0, ex[k],
                                     IF k - 1 > 0 THEN <<>> ELSE offs0)],
         exists |-> ex,
         causal |-> [k \in 1..size |-> CausalRow(ex[k], strideOf)],
         anticausal |-> [k \in 1..size |-> AnticausalRow(ex[k], strideOf)],
         lookup |-> [k \in 1..size |->
                        LookupLoop(neighborCount, ex[k], oldLookup[k])]]

\* makeArrayNeighborhood(neighborOffsets, neighborExists, causalNeighborExists,
\*                       anticausalNeighborExists, neighborIndexLookup, nt)
makeArrayNeighborhood(nt) ==
    LET t == BuildTables(nt, N,
                 [offsets |-> neighborOffsets,
                  exists |-> neighborExists,
                  causal |-> causalNeighborExists,
                  anticausal |-> anticausalNeighborExists,
                  lookup |-> neighborIndexLookup])
    IN  /\ neighborOffsets' = t.offsets
        /\ neighborExists' = t.exists
        /\ causalNeighborExists' = t.causal
        /\ anticausalNeighborExists' = t.anticausal
        /\ neighborIndexLookup' = t.lookup
        /\ neighborhoodType' = nt
        /\ buildCalls' = buildCalls + 1
        /\ UNCHANGED <<N, subVars, borderVars, enumVars>>

\* as the loop of makeArraySubNeighborhood, without the test of neighborExists[k][l]
SubNeighborLoop_All(allNeighborOffsets, ex, strd, row) ==
    row \o [l \in 1..Len(allNeighborOffsets) |-> dot(allNeighborOffsets[l], strd)]

\* neighborIndices[k] = row: the loop over l pushes dot(allNeighborOffsets[l], strides)
\* where neighborExists[k][l]
SubNeighborLoop(allNeighborOffsets, ex, strd, row) ==
    LET pushed == PushedWhere(ex, Len(allNeighborOffsets))
    IN  row \o [i \in 1..Len(pushed) |-> dot(allNeighborOffsets[pushed[i] + 1], strd)]

\* makeArraySubNeighborhood(neighborOffsets[0], neighborExists, strd, neighborIndices)
makeArraySubNeighborhood(strd) ==
    LET size == TableSize(N)
        old == Resize(neighborIndices, size, <<>>)
        allNeighborOffsets == neighborOffsets[1]
    IN  /\ neighborIndices' = [k \in 1..size |->
               SubNeighborLoop(allNeighborOffsets, neighborExists[k], strd, old[k])]
        /\ strides' = strd
        /\ subNeighborhoodType' = neighborhoodType
        /\ subCalls' = subCalls + 1
        /\ UNCHANGED <<N, tables, neighborhoodType, buildCalls, borderVars, enumVars>>

\* BorderTypeImpl<N>::exec(pt, shp)
BorderType(pt, shp) ==
    /\ point' = pt
    /\ shape' = shp
    /\ borderType' = BorderTypeImpl_exec(N - 1, pt, shp)
    /\ classified' = TRUE
    /\ UNCHANGED <<N, tables, neighborhoodType, buildCalls, subVars, enumVars>>

\* ----------------------------------------------------------------- inputs
\* stride vectors of arrays with equal extents b: column-major and row-major
StrideVectors(n) ==
    {[d \in 1..n |-> b ^ (d - 1)] : b \in 1..MaxBase}
        \cup {[d \in 1..n |-> b ^ (n - d)] : b \in 1..MaxBase}

\* extents of a region: the two smallest and the largest
Extents == {1, 2, MaxExtent}

\* region shapes with every extent >= 1
Shapes(n) == [1..n -> Extents]

\* points of the region: 0 <= p[d] < shp[d]
Points(shp) == {p \in [1..Len(shp) -> 0..(MaxExtent - 1)] :
                   \A d \in 1..Len(shp) : p[d] < shp[d]}

\* ---------------------------------------------------------- specifications
InitContainers ==
    /\ neighborOffsets = <<>>
    /\ neighborExists = <<>>
    /\ causalNeighborExists = <<>>
    /\ anticausalNeighborExists = <<>>
    /\ neighborIndexLookup = <<>>
    /\ neighborIndices = <<>>
    /\ strides = ZeroShape(N)
    /\ subNeighborhoodType = DirectNeighborhood
    /\ buildCalls = 0
    /\ subCalls = 0
    /\ shape = [d \in 1..N |-> 1]
    /\ point = ZeroShape(N)
    /\ classified = FALSE
    /\ a = <<>>

\* the table factory and the sub-neighborhood indexer on one set of containers
Init ==
    /\ N \in 1..MaxN
    /\ InitContainers
    /\ neighborhoodType = DirectNeighborhood
    /\ borderType = 0
    /\ pc = "tables"

\* a makeArrayNeighborhood call; the tables are complete before the traversal
\* code classifies its point (BorderTypeImpl::exec reads and writes no table,
\* so the two commute)
Build ==
    /\ buildCalls + subCalls < MaxCalls
    /\ ~classified
    /\ \E nt \in NeighborhoodType : makeArrayNeighborhood(nt)

\* a makeArraySubNeighborhood call; its caller passes neighborOffsets[0], which
\* exists once the tables were built
SubBuild ==
    /\ buildCalls + subCalls < MaxCalls
    /\ buildCalls > 0
    /\ \E strd \in StrideVectors(N) : makeArraySubNeighborhood(strd)

Next == Build \/ SubBuild

Spec == Init /\ [][Next]_vars

\* the table factory, then the traversal code classifying a point of its region
Classify ==
    /\ buildCalls > 0
    /\ ~classified
    /\ \E shp \in Shapes(N) : \E pt \in Points(shp) : BorderType(pt, shp)

NextBorder == Build \/ Classify

SpecBorder == Init /\ [][NextBorder]_vars

\* one enumerator function applied to an empty array
InitEnum ==
    /\ N \in 1..MaxN
    /\ InitContainers
    /\ neighborhoodType \in NeighborhoodType
    /\ borderType \in 0..(TableSize(N) - 1)
    /\ pc = "start"

Offsets ==
    /\ pc = "start"
    /\ a' = CanonicalOffsets(neighborhoodType, N)
    /\ pc' = "offsets"
    /\ UNCHANGED <<N, tables, neighborhoodType, buildCalls, subVars, borderVars>>

Exists ==
    /\ pc = "start"
    /\ a' = ExistsFor(neighborhoodType, N, borderType)
    /\ pc' = "exists"
    /\ UNCHANGED <<N, tables, neighborhoodType, buildCalls, subVars, borderVars>>

NextEnum == Offsets \/ Exists

SpecEnum == InitEnum /\ [][NextEnum]_vars

\* ------------------------------------------------------------------ claims
\* the strides (1, 3, .., 3^(N-1)) the claims name
naturalStrides == [d \in 1..N |-> 3 ^ (d - 1)]

\* p + off lies inside the region of extents shp
Inside(p, off, shp) == \A d \in 1..Len(shp) : 0 <= p[d] + off[d] /\ p[d] + off[d] < shp[d]

\* the number of true entries of a sequence of flags
CountTrue(flags) == Cardinality({l \in 1..Len(flags) : flags[l]})

\* C1: for the classified point p of a region, bit 2d of the code is set iff
\* p[d] = 0 and bit 2d+1 iff p[d] = shape[d]-1, and neighborExists[code][l] is
\* true iff p + neighborOffsets[0][l] lies inside the region, for every l.
C1_ExistsIffInside ==
    classified =>
        /\ \A d \in 1..N :
              /\ BitAnd(borderType, 2 ^ (2 * (d - 1))) <=> (point[d] = 0)
              /\ BitAnd(borderType, 2 * 2 ^ (2 * (d - 1))) <=> (point[d] = shape[d] - 1)
        /\ Len(neighborExists[borderType + 1]) = Len(neighborOffsets[1])
        /\ \A l \in 1..Len(neighborOffsets[1]) :
              neighborExists[borderType + 1][l]
                  <=> Inside(point, neighborOffsets[1][l], shape)

\* a point on the high face of dimension 2 of a region one point thick in
\* dimension 0, classified against indirect tables that were built twice
C1_Witness ==
    /\ classified
    /\ N = 3
    /\ neighborhoodType = IndirectNeighborhood
    /\ buildCalls = 2
    /\ shape = <<1, 3, 3>>
    /\ point = <<0, 1, 2>>
    /\ borderType = 35
    /\ CountTrue(neighborExists[borderType + 1]) = 5

\* C2: a second makeArrayNeighborhood call with the same neighborhood type on
\* the populated containers leaves all five tables as they were.
C2_RebuildIdempotent ==
    [][(buildCalls > 0 /\ buildCalls' = buildCalls + 1
            /\ neighborhoodType' = neighborhoodType)
        => tables' = tables]_vars

\* the flat strides of the existing neighbors of code k, in canonical order
FlatStridesOf(k, strd) ==
    LET existing == SelectSeq([l \in 1..Len(neighborOffsets[1]) |-> l],
                              LAMBDA l : neighborExists[k + 1][l])
    IN  [i \in 1..Len(existing) |-> dot(neighborOffsets[1][existing[i]], strd)]

\* C3: a makeArraySubNeighborhood call with new strides on the container an
\* earlier call populated (same offsets and existence table) leaves, for every
\* code k, exactly the flat strides of the existing neighbors under the new strides.
C3_RebuiltOnStrideChange ==
    [][(subCalls > 0 /\ subCalls' = subCalls + 1
            /\ subNeighborhoodType = neighborhoodType)
        => \A k \in 0..(TableSize(N) - 1) :
               /\ Len(neighborIndices'[k + 1]) = CountTrue(neighborExists[k + 1])
               /\ neighborIndices'[k + 1] = FlatStridesOf(k, strides')]_vars

\* C4: after one makeArraySubNeighborhood call on an empty output, with the
\* tables of makeArrayNeighborhood, neighborIndices[k] is as long as
\* neighborOffsets[k] and neighborIndices[k][i] = dot(neighborOffsets[k][i], strides).
C4_FlatStridesMatchOffsets ==
    (subCalls = 1 /\ subNeighborhoodType = neighborhoodType) =>
        \A k \in 0..(TableSize(N) - 1) :
            /\ Len(neighborIndices[k + 1]) = Len(neighborOffsets[k + 1])
            /\ \A i \in 1..Len(neighborOffsets[k + 1]) :
                  neighborIndices[k + 1][i] = dot(neighborOffsets[k + 1][i], strides)

\* row-major strides on the indirect 3-D tables: the interior code has all 26
\* flat strides, the corner code 21 (low borders of all dimensions) has 7
C4_Witness ==
    /\ subCalls = 1
    /\ subNeighborhoodType = neighborhoodType
    /\ N = 3
    /\ neighborhoodType = IndirectNeighborhood
    /\ strides = <<9, 3, 1>>
    /\ Len(neighborIndices[1]) = 26
    /\ neighborIndices[22] = <<9, 3, 12, 1, 10, 4, 13>>

\* the number of neighbors of the neighborhood the tables were built for
NeighborCount ==
    IF neighborhoodType = DirectNeighborhood THEN 2 * N ELSE 3 ^ N - 1

\* C5: after one makeArrayNeighborhood call on empty containers, for every code k
\* neighborIndexLookup[k] is the strictly ascending list of the l with
\* neighborExists[k][l], neighborOffsets[k][i] = neighborOffsets[0][lookup[k][i]],
\* neighborOffsets[0] is the full list, and both sizes equal the number of true
\* entries of neighborExists[k].
C5_FilteredTables ==
    buildCalls = 1 =>
        /\ Len(neighborOffsets[1]) = NeighborCount
        /\ neighborIndexLookup[1] = [l \in 1..NeighborCount |-> l - 1]
        /\ \A k \in 0..(TableSize(N) - 1) :
              LET lk == neighborIndexLookup[k + 1]
                  ex == neighborExists[k + 1]
              IN  /\ Len(ex) = NeighborCount
                  /\ \A i \in 1..(Len(lk) - 1) : lk[i] < lk[i + 1]
                  /\ {lk[i] : i \in 1..Len(lk)} = {l \in 0..(NeighborCount - 1) : ex[l + 1]}
                  /\ Len(lk) = CountTrue(ex)
                  /\ Len(neighborOffsets[k + 1]) = Len(lk)
                  /\ \A i \in 1..Len(lk) :
                        neighborOffsets[k + 1][i] = neighborOffsets[1][lk[i] + 1]

\* direct 2-D tables: the code 5 (low borders of both dimensions) keeps the
\* neighbors 2 and 3, with offsets (1,0) and (0,1)
C5_Witness ==
    /\ buildCalls = 1
    /\ N = 2
    /\ neighborhoodType = DirectNeighborhood
    /\ neighborIndexLookup[6] = <<2, 3>>
    /\ neighborOffsets[6] = << <<1, 0>>, <<0, 1>> >>
    /\ neighborExists[6] = <<FALSE, FALSE, TRUE, TRUE>>

\* C6: for every code k and neighbor l, causalNeighborExists[k][l] is
\* neighborExists[k][l] and a negative natural stride, anticausalNeighborExists[k][l]
\* is neighborExists[k][l] and a non-negative one; so never both, their disjunction
\* is neighborExists[k][l], and after a build into empty containers the true
\* entries of the two add up to those of neighborExists[k], the size of the lookup.
C6_CausalPartition ==
    buildCalls > 0 =>
        LET strideOf == [l \in 1..Len(neighborOffsets[1]) |->
                             dot(neighborOffsets[1][l], naturalStrides)]
        IN  \A k \in 0..(TableSize(N) - 1) :
                LET ex == neighborExists[k + 1]
                    c == causalNeighborExists[k + 1]
                    ac == anticausalNeighborExists[k + 1]
                IN  /\ Len(c) = Len(ex) /\ Len(ac) = Len(ex)
                    /\ \A l \in 1..Len(ex) :
                          /\ c[l] = (ex[l] /\ strideOf[l] < 0)
                          /\ ac[l] = (ex[l] /\ strideOf[l] >= 0)
                          /\ ~(c[l] /\ ac[l])
                          /\ (c[l] \/ ac[l]) = ex[l]
                    /\ CountTrue(c) + CountTrue(ac) = CountTrue(ex)
                    /\ buildCalls = 1 =>
                          CountTrue(ex) = Len(neighborIndexLookup[k + 1])

\* indirect 2-D tables, code 2 (high border of dimension 0): of the 5 existing
\* neighbors 3 are causal and 2 anticausal
C6_Witness ==
    /\ buildCalls = 1
    /\ N = 2
    /\ neighborhoodType = IndirectNeighborhood
    /\ CountTrue(neighborExists[3]) = 5
    /\ CountTrue(causalNeighborExists[3]) = 3
    /\ CountTrue(anticausalNeighborExists[3]) = 2
    /\ Len(neighborIndexLookup[3]) = 5

\* C7: the natural stride of the canonical offsets is non-decreasing in l; for
\* the direct neighborhood the first count/2 entries have a negative and the
\* other count/2 a non-negative natural stride.
C7_OffsetsOrdered ==
    pc = "offsets" =>
        LET strideOf == [l \in 1..Len(a) |-> dot(a[l], naturalStrides)]
            half == Len(a) \div 2
        IN  /\ \A l \in 1..(Len(a) - 1) : strideOf[l] <= strideOf[l + 1]
            /\ neighborhoodType = DirectNeighborhood =>
                  /\ 2 * half = Len(a)
                  /\ \A l \in 1..half : strideOf[l] < 0
                  /\ \A l \in (half + 1)..Len(a) : strideOf[l] >= 0

\* the direct offsets of a 3-D grid, with natural strides -9, -3, -1, 1, 3, 9
C7_Witness ==
    /\ pc = "offsets"
    /\ N = 3
    /\ neighborhoodType = DirectNeighborhood
    /\ a = << <<0, 0, -1>>, <<0, -1, 0>>, <<-1, 0, 0>>,
              <<1, 0, 0>>, <<0, 1, 0>>, <<0, 0, 1>> >>

\* C8: every canonical offset is the negation of the offset at the mirrored
\* index: offset[l] = -offset[count-1-l] componentwise.
C8_OffsetsReflected ==
    pc = "offsets" =>
        \A l \in 1..Len(a) : \A d \in 1..N : a[l][d] = -a[Len(a) + 1 - l][d]

\* the indirect offsets of a 3-D grid: 26 entries from (-1,-1,-1) to (1,1,1)
C8_Witness ==
    /\ pc = "offsets"
    /\ N = 3
    /\ neighborhoodType = IndirectNeighborhood
    /\ Len(a) = 26
    /\ a[1] = <<-1, -1, -1>>
    /\ a[26] = <<1, 1, 1>>
    /\ a[13] = <<-1, 0, 0>>
    /\ a[14] = <<1, 0, 0>>

\* C9: the canonical list has 2N pairwise distinct entries, each with exactly
\* one non-zero component of value -1 or +1, for the direct neighborhood, and
\* 3^N - 1 pairwise distinct entries, all vectors over {-1,0,1} but the center,
\* for the indirect one.
C9_NeighborCounts ==
    pc = "offsets" =>
        /\ \A l \in 1..Len(a) : \A m \in 1..Len(a) : a[l] = a[m] => l = m
        /\ \A l \in 1..Len(a) : Len(a[l]) = N /\ \A d \in 1..N : a[l][d] \in {-1, 0, 1}
        /\ neighborhoodType = DirectNeighborhood =>
              /\ Len(a) = 2 * N
              /\ \A l \in 1..Len(a) : Cardinality({d \in 1..N : a[l][d] # 0}) = 1
        /\ neighborhoodType = IndirectNeighborhood =>
              /\ Len(a) = 3 ^ N - 1
              /\ \A l \in 1..Len(a) : \E d \in 1..N : a[l][d] # 0
              /\ {a[l] : l \in 1..Len(a)}
                     = [1..N -> {-1, 0, 1}] \ {[d \in 1..N |-> 0]}

\* the indirect offsets of a 2-D grid: the 8 neighbors of the 3x3 block
C9_Witness ==
    /\ pc = "offsets"
    /\ N = 2
    /\ neighborhoodType = IndirectNeighborhood
    /\ a = << <<-1, -1>>, <<0, -1>>, <<1, -1>>, <<-1, 0>>,
              <<1, 0>>, <<-1, 1>>, <<0, 1>>, <<1, 1>> >>

\* whether the border code k leaves the neighbor at offset off inside the region
InsideForCode(off, k) ==
    \A d \in 1..Len(off) :
        /\ off[d] = -1 => ~BitAnd(k, 2 ^ (2 * (d - 1)))
        /\ off[d] = 1 => ~BitAnd(k, 2 * 2 ^ (2 * (d - 1)))

\* C10: for every code k (also with both bits of a dimension set) the indirect
\* exists() yields 3^N - 1 entries, entry l true iff no component of offset l
\* points across a border flagged in k; code 0 yields all true; and one
\* markOutside call at level L appends exactly 3^(L+1) false entries.
C10_ExistsIsProductFilter ==
    (pc = "exists" /\ neighborhoodType = IndirectNeighborhood) =>
        LET offs == CanonicalOffsets(IndirectNeighborhood, N)
        IN  /\ Len(a) = 3 ^ N - 1
            /\ Len(offs) = Len(a)
            /\ \A l \in 1..Len(a) : a[l] = InsideForCode(offs[l], borderType)
            /\ borderType = 0 => \A l \in 1..Len(a) : a[l]
            /\ \A L \in 0..(N - 1) :
                  LET marked == MakeIndirectArrayNeighborhood_markOutside(L, a)
                  IN  /\ Len(marked) = Len(a) + 3 ^ (L + 1)
                      /\ SubSeq(marked, 1, Len(a)) = a
                      /\ \A l \in (Len(a) + 1)..Len(marked) : ~marked[l]

\* 3-D, code 19: both borders of dimension 0 and the low border of dimension 2;
\* only the offsets (0,-1,0), (0,1,0), (0,-1,1), (0,0,1), (0,1,1) remain
C10_Witness ==
    /\ pc = "exists"
    /\ neighborhoodType = IndirectNeighborhood
    /\ N = 3
    /\ borderType = 19
    /\ Len(a) = 26
    /\ {l \in 1..26 : a[l]} = {11, 16, 19, 22, 25}

=============================================================================
